---- MODULE Spec2Model ----
(***************************************************************************)
(* Model of the crypto endpoint of alpha_vantage: the helper-to-public     *)
(* conversion (CryptoHelper::convert), the Vec<Entry> operations (find,    *)
(* latest, latest_n) and the terminal call CryptoBuilder::json() through   *)
(* ApiClient::get_json.                                                    *)
(*                                                                         *)
(* Strings whose content matters (timestamps, map keys, numeric strings)   *)
(* are sequences of one-character strings, so that comparison, substring   *)
(* search and number parsing are computed and not assumed.  f64 values are *)
(* modelled by the naturals the numeric strings denote.                    *)
(***************************************************************************)
EXTENDS Naturals, Integers, Sequences, FiniteSets, TLC

VARIABLES client, calls, helper, result, vec, ret

vars == <<client, calls, helper, result, vec, ret>>

(***************************************************************************)
(* Bounds of the model.                                                    *)
(***************************************************************************)
\* longest Vec<Entry> the collection operations are applied to
MaxEntries == 3
\* number of json() calls made on the one shared client
NumCalls == 2

(***************************************************************************)
(* Option / Result values.                                                 *)
(***************************************************************************)
None == [tag |-> "None"]
Some(v) == [tag |-> "Some", val |-> v]
IsSome(o) == o.tag = "Some"
IsNone(o) == o.tag = "None"

Ok(v) == [tag |-> "Ok", val |-> v]
Err(kind, payload) == [tag |-> "Err", kind |-> kind, val |-> payload]
\* an unwrap()/expect() that aborts the thread: no value is returned
Panic == [tag |-> "Panic"]
\* no operation has produced a value yet
Nothing == [tag |-> "Nothing"]

(***************************************************************************)
(* Strings: sequences of characters; Rust compares String byte-wise.       *)
(***************************************************************************)
\* the characters used, in ascending byte order
Chars == <<"1", "2", "3", "4", "a", "x">>
Digits == {"1", "2", "3", "4"}
CharIdx(c) == CHOOSE i \in 1..Len(Chars) : Chars[i] = c
DigitVal(c) == CharIdx(c)

RECURSIVE StrLess(_, _)
\* a < b in the lexicographic order of String (a proper prefix is smaller)
StrLess(a, b) ==
    IF b = <<>> THEN FALSE
    ELSE IF a = <<>> THEN TRUE
    ELSE IF Head(a) # Head(b) THEN CharIdx(Head(a)) < CharIdx(Head(b))
    ELSE StrLess(Tail(a), Tail(b))

StrLeq(a, b) == a = b \/ StrLess(a, b)

\* str::contains: sub occurs in s as a contiguous substring
Contains(s, sub) ==
    \E i \in 0..Len(s) :
        /\ i + Len(sub) <= Len(s)
        /\ \A j \in 1..Len(sub) : s[i + j] = sub[j]

RECURSIVE DecimalValue(_)
DecimalValue(s) ==
    IF s = <<>> THEN 0
    ELSE 10 * DecimalValue(SubSeq(s, 1, Len(s) - 1)) + DigitVal(s[Len(s)])

\* f64::from_str over the strings of Chars: a non-empty digit string parses,
\* every other string (empty, or holding a letter) is a ParseFloatError
ParseF64(s) ==
    IF s # <<>> /\ \A i \in 1..Len(s) : s[i] \in Digits
    THEN Ok(DecimalValue(s))
    ELSE Err("ParseFloatError", "")

(***************************************************************************)
(* Entry: the public record (crypto.rs, struct Entry) and its default.     *)
(***************************************************************************)
EntryDefault ==
    [time |-> <<>>, market_open |-> 0, usd_open |-> 0, market_high |-> 0,
     usd_high |-> 0, market_low |-> 0, usd_low |-> 0, market_close |-> 0,
     usd_close |-> 0, volume |-> 0, market_cap |-> 0]

(***************************************************************************)
(* impl VecEntry for Vec<Entry>.  A returned &Entry is the index of the    *)
(* element in the vector; latest() returns a clone (the record itself).    *)
(* The operations take &self: the action records the vector they ran on.   *)
(***************************************************************************)
\* find, but the last matching element (an rfind)
find_last(v, time) ==
    IF \E i \in 1..Len(v) : v[i].time = time
    THEN Some(CHOOSE i \in 1..Len(v) :
                /\ v[i].time = time
                /\ \A j \in (i + 1)..Len(v) : v[j].time # time)
    ELSE None

\* Iterator::find: the first element, in list order, with entry.time == time
find(v, time) ==
    IF \E i \in 1..Len(v) : v[i].time = time
    THEN Some(CHOOSE i \in 1..Len(v) :
                /\ v[i].time = time
                /\ \A j \in 1..(i - 1) : v[j].time # time)
    ELSE None

RECURSIVE LatestFrom(_, _, _)
\* the loop of latest(): cur is the record `latest` refers to before element i
LatestFrom(v, i, cur) ==
    IF i > Len(v) THEN cur
    ELSE LatestFrom(v, i + 1, IF StrLess(cur.time, v[i].time) THEN v[i] ELSE cur)

latest(v) == LatestFrom(v, 1, EntryDefault)

RECURSIVE InsertDesc(_, _)
\* insert t into the descending list s behind every element >= t (stable)
InsertDesc(s, t) ==
    IF s = <<>> THEN <<t>>
    ELSE IF StrLess(Head(s), t) THEN <<t>> \o s
    ELSE <<Head(s)>> \o InsertDesc(Tail(s), t)

RECURSIVE SortDescFrom(_, _, _)
SortDescFrom(s, i, acc) ==
    IF i > Len(s) THEN acc ELSE SortDescFrom(s, i + 1, InsertDesc(acc, s[i]))

RECURSIVE InsertAsc(_, _)
InsertAsc(s, t) ==
    IF s = <<>> THEN <<t>>
    ELSE IF StrLess(t, Head(s)) THEN <<t>> \o s
    ELSE <<Head(s)>> \o InsertAsc(Tail(s), t)

RECURSIVE SortAscFrom(_, _, _)
SortAscFrom(s, i, acc) ==
    IF i > Len(s) THEN acc ELSE SortAscFrom(s, i + 1, InsertAsc(acc, s[i]))

\* the sort without cmp::Reverse: ascending
SortAsc(s) == SortAscFrom(s, 1, <<>>)

\* time_list.sort_by_key(|w| cmp::Reverse(*w)): stable, descending
SortDesc(s) == SortDescFrom(s, 1, <<>>)

TimeList(v) == [i \in 1..Len(v) |-> v[i].time]

latest_n(v, n) ==
    LET time_list == SortDesc(TimeList(v))
    IN  IF n > Len(time_list)
        THEN Err("DesiredNumberOfEntryNotPresent", Len(time_list))
        ELSE LET found == [i \in 1..n |-> find(v, time_list[i])]
             IN  IF \E i \in 1..n : IsNone(found[i])
                 THEN Panic
                 ELSE Ok([i \in 1..n |-> found[i].val])

(***************************************************************************)
(* The wire (helper) structs of crypto.rs.                                 *)
(***************************************************************************)
\* keys of the flattened market_data map: "1a. open (CNY)" and the like are
\* cut down to the part the routing reads
K1a == <<"1", "a">>
K2a == <<"2", "a">>
K3a == <<"3", "a">>
K4a == <<"4", "a">>
\* a second key holding "1a", and a key holding none of the four patterns
Kx1a == <<"x", "1", "a">>
Kx == <<"x">>

\* a HashMap with no key
EmptyMap == <<>>

\* struct EntryHelper: six parsed USD fields and the flattened string map
EntryHelperOf(o, h, l, c, v, m, md) ==
    [open_usd |-> o, high_usd |-> h, low_usd |-> l, close_usd |-> c,
     volume |-> v, market_cap |-> m, market_data |-> md]

\* the records a response can hold in this model
EntryHelpers ==
    { EntryHelperOf(1, 2, 1, 2, 3, 4, (Kx :> <<"3">>)),
      EntryHelperOf(2, 3, 1, 2, 4, 1, (K1a :> <<"3">>) @@ (K4a :> <<"1", "2">>)),
      EntryHelperOf(3, 4, 2, 3, 1, 2, (K2a :> <<"4">>) @@ (K3a :> <<"2">>)),
      EntryHelperOf(1, 1, 1, 1, 1, 1, (K1a :> <<"1">>) @@ (Kx1a :> <<"2">>)),
      EntryHelperOf(4, 4, 4, 4, 4, 4, (Kx :> <<"a">>)) }

\* struct MetaData: seven strings, copied unread by convert
MetaDataSample ==
    [information |-> "Daily Prices", digital_code |-> "BTC",
     digital_name |-> "Bitcoin", market_code |-> "EUR", market_name |-> "Euro",
     last_refreshed |-> "2020-01-02", time_zone |-> "UTC"]

\* the top-level keys that hold a series, and the timestamps inside one
SeriesKeys == {"Time Series A", "Time Series B"}
SeriesTimes == {<<"1", "1">>, <<"1", "2">>}

\* every map from a subset of D to R
MapsOver(D, R) == UNION { [S -> R] : S \in SUBSET D }

SeriesMaps == MapsOver(SeriesKeys, MapsOver(SeriesTimes, EntryHelpers))

OptionOf(S) == {None} \cup { Some(x) : x \in S }

\* struct CryptoHelper
CryptoHelpers ==
    [information : OptionOf({"no data"}),
     error_message : OptionOf({"Invalid API call", "Invalid symbol"}),
     note : OptionOf({"5 calls per minute"}),
     meta_data : OptionOf({MetaDataSample}),
     entry : OptionOf(SeriesMaps)]

(***************************************************************************)
(* Iteration order of the HashMaps convert walks: unspecified, so an       *)
(* order is chosen for every map.                                          *)
(***************************************************************************)
\* the sequences that list every element of S once
Perms(S) ==
    { p \in [1..Cardinality(S) -> S] :
        \A i, j \in 1..Cardinality(S) : p[i] = p[j] => i = j }

\* the iteration orders of a series map m: of its keys, of each series'
\* timestamps and of each record's market_data keys
IterOrders(m) ==
    [outer : Perms(DOMAIN m),
     inner : { f \in [DOMAIN m -> UNION { Perms(DOMAIN m[k]) : k \in DOMAIN m }] :
                 \A k \in DOMAIN m : f[k] \in Perms(DOMAIN m[k]) },
     md : { g \in [DOMAIN m ->
                     UNION { [DOMAIN m[k] ->
                               UNION { Perms(DOMAIN m[k][t].market_data) :
                                         t \in DOMAIN m[k] }] : k \in DOMAIN m }] :
              \A k \in DOMAIN m :
                 /\ DOMAIN g[k] = DOMAIN m[k]
                 /\ \A t \in DOMAIN m[k] :
                       g[k][t] \in Perms(DOMAIN m[k][t].market_data) }]

NoOrder == [outer |-> <<>>, inner |-> <<>>, md |-> <<>>]

HelperOrders(h) ==
    IF IsSome(h.entry) THEN IterOrders(h.entry.val) ELSE {NoOrder}

(***************************************************************************)
(* error::detect_common_helper_error                                       *)
(***************************************************************************)
detect_common_helper_error(information, error_message, note) ==
    IF IsSome(error_message) THEN Err("AlphaVantageErrorMessage", error_message.val)
    ELSE IF IsSome(note) THEN Err("AlphaVantageNote", note.val)
    ELSE IF IsSome(information) THEN Err("AlphaVantageInformation", information.val)
    ELSE Ok(<<>>)

(***************************************************************************)
(* CryptoHelper::convert                                                   *)
(***************************************************************************)
\* the chain with the target of the "4a" branch copied from the "1a" branch
RouteMarketCloseToOpen(entry, key, f64_value) ==
    IF Contains(key, <<"1", "a">>) THEN [entry EXCEPT !.market_open = f64_value]
    ELSE IF Contains(key, <<"2", "a">>) THEN [entry EXCEPT !.market_high = f64_value]
    ELSE IF Contains(key, <<"3", "a">>) THEN [entry EXCEPT !.market_low = f64_value]
    ELSE IF Contains(key, <<"4", "a">>) THEN [entry EXCEPT !.market_open = f64_value]
    ELSE entry

\* the if / else-if chain on key.contains(..), applied to one parsed value
RouteMarket(entry, key, f64_value) ==
    IF Contains(key, <<"1", "a">>) THEN [entry EXCEPT !.market_open = f64_value]
    ELSE IF Contains(key, <<"2", "a">>) THEN [entry EXCEPT !.market_high = f64_value]
    ELSE IF Contains(key, <<"3", "a">>) THEN [entry EXCEPT !.market_low = f64_value]
    ELSE IF Contains(key, <<"4", "a">>) THEN [entry EXCEPT !.market_close = f64_value]
    ELSE entry

RECURSIVE MarketLoop(_, _, _, _)
\* the loop over entry_helper.market_data.keys(), from position i of keys;
\* an unparsable value makes f64::from_str(value).unwrap() panic
MarketLoop(md, keys, i, acc) ==
    IF i > Len(keys) THEN Ok(acc)
    ELSE LET parsed == ParseF64(md[keys[i]])
         IN  IF parsed.tag # "Ok" THEN Panic
             ELSE MarketLoop(md, keys, i + 1, RouteMarket(acc, keys[i], parsed.val))

\* one iteration of the inner loop: the Entry built for timestamp key
BuildEntry(key, entry_helper, keys) ==
    MarketLoop(entry_helper.market_data, keys, 1,
               [EntryDefault EXCEPT !.time = key,
                                    !.usd_open = entry_helper.open_usd,
                                    !.usd_high = entry_helper.high_usd,
                                    !.usd_low = entry_helper.low_usd,
                                    !.usd_close = entry_helper.close_usd,
                                    !.market_cap = entry_helper.market_cap,
                                    !.volume = entry_helper.volume])

\* the (series key, timestamp) pairs in the order the two loops visit them
RECURSIVE VisitOrder(_, _)
VisitOrder(ord, i) ==
    IF i > Len(ord.outer) THEN <<>>
    ELSE LET k == ord.outer[i]
         IN  [j \in 1..Len(ord.inner[k]) |-> <<k, ord.inner[k][j]>>]
             \o VisitOrder(ord, i + 1)

RECURSIVE EntryLoop(_, _, _, _, _)
\* the two nested loops, from position i of the visit order, vec_entry = acc
EntryLoop(m, ord, visit, i, acc) ==
    IF i > Len(visit) THEN Ok(acc)
    ELSE LET k == visit[i][1]
             t == visit[i][2]
             built == BuildEntry(t, m[k][t], ord.md[k][t])
         IN  IF built.tag # "Ok" THEN Panic
             ELSE EntryLoop(m, ord, visit, i + 1, Append(acc, built.val))

\* the outcome of convert and the steps it ran: "detect" (the sentinel
\* check), "payload" (the is_none test), "structural" (the loops)
Converted(outcome, steps) == [outcome |-> outcome, steps |-> steps]
\* convert has not run
NotConverted == Converted(Nothing, <<>>)

\* convert behind the sentinel check: the is_none test, the loops, Ok(..)
ConvertPayload(h, ord) ==
    IF IsNone(h.meta_data) \/ IsNone(h.entry)
    THEN Converted(Err("EmptyResponse", ""), <<"detect", "payload">>)
    ELSE LET looped == EntryLoop(h.entry.val, ord, VisitOrder(ord, 1), 1, <<>>)
         IN  IF looped.tag # "Ok"
             THEN Converted(Panic, <<"detect", "payload", "structural">>)
             ELSE Converted(Ok([entry |-> looped.val,
                                meta_data |-> h.meta_data.val]),
                            <<"detect", "payload", "structural">>)

\* convert with the is_none test moved in front of the sentinel check
convert_payload_first(h, ord) ==
    IF IsNone(h.meta_data) \/ IsNone(h.entry)
    THEN Converted(Err("EmptyResponse", ""), <<"payload">>)
    ELSE LET detected == detect_common_helper_error(h.information, h.error_message, h.note)
         IN  IF detected.tag = "Err" THEN Converted(detected, <<"payload", "detect">>)
             ELSE ConvertPayload(h, ord)

\* convert handing note and information to the sentinel check swapped
convert_swapped_args(h, ord) ==
    LET detected == detect_common_helper_error(h.note, h.error_message, h.information)
    IN  IF detected.tag = "Err" THEN Converted(detected, <<"detect">>)
        ELSE ConvertPayload(h, ord)

\* convert running the sentinel check only when the payload is missing
convert_payload_wins(h, ord) ==
    IF IsSome(h.meta_data) /\ IsSome(h.entry) THEN ConvertPayload(h, ord)
    ELSE LET detected == detect_common_helper_error(h.information, h.error_message, h.note)
         IN  IF detected.tag = "Err" THEN Converted(detected, <<"detect">>)
             ELSE ConvertPayload(h, ord)

\* convert with && for || in the is_none test: one missing part reaches unwrap()
convert_and(h, ord) ==
    LET detected == detect_common_helper_error(h.information, h.error_message, h.note)
    IN  IF detected.tag = "Err" THEN Converted(detected, <<"detect">>)
        ELSE IF IsNone(h.meta_data) /\ IsNone(h.entry)
        THEN Converted(Err("EmptyResponse", ""), <<"detect", "payload">>)
        ELSE IF IsNone(h.meta_data) \/ IsNone(h.entry)
        THEN Converted(Panic, <<"detect", "payload", "structural">>)
        ELSE ConvertPayload(h, ord)

convert(h, ord) ==
    LET detected == detect_common_helper_error(h.information, h.error_message, h.note)
    IN  IF detected.tag = "Err" THEN Converted(detected, <<"detect">>)
        ELSE ConvertPayload(h, ord)

(***************************************************************************)
(* Response bodies and serde_json::from_str::<CryptoHelper>.               *)
(* A body is either text that is no JSON object, or a JSON object: a map   *)
(* from top-level keys to values tagged with their JSON shape.             *)
(***************************************************************************)
JStr(v) == [t |-> "string", v |-> v]
JNum(v) == [t |-> "number", v |-> v]
JMeta(v) == [t |-> "meta", v |-> v]
JSeries(v) == [t |-> "series", v |-> v]

NotJson == [json |-> FALSE, obj |-> EmptyMap]
JsonObject(obj) == [json |-> TRUE, obj |-> obj]

T1 == <<"1", "1">>
T2 == <<"1", "2">>
EhPlain == EntryHelperOf(1, 2, 1, 2, 3, 4, EmptyMap)
EhMarket == EntryHelperOf(2, 3, 1, 2, 4, 1, (K1a :> <<"3">>) @@ (K4a :> <<"1", "2">>))
EhNotNumeric == EntryHelperOf(4, 4, 4, 4, 4, 4, (Kx :> <<"a">>))

\* the bodies the transport can answer with
Bodies ==
    { NotJson,
      JsonObject(EmptyMap),
      JsonObject("Error Message" :> JStr("Invalid API call")),
      JsonObject("Error Message" :> JNum("5")),
      JsonObject("Note" :> JStr("5 calls per minute")),
      JsonObject("Information" :> JStr("no data")),
      JsonObject(("Meta Data" :> JMeta(MetaDataSample))
                 @@ ("Time Series A" :> JSeries((T1 :> EhPlain) @@ (T2 :> EhMarket)))),
      JsonObject(("Meta Data" :> JMeta(MetaDataSample))
                 @@ ("Time Series A" :> JSeries(T1 :> EhNotNumeric))),
      JsonObject("Time Series A" :> JSeries(T1 :> EhPlain)),
      JsonObject(("Meta Data" :> JMeta(MetaDataSample)) @@ ("Volume" :> JNum("7"))) }

NamedKeys == {"Information", "Error Message", "Note", "Meta Data"}

\* an Option<String> field: absent is None, a string is Some, else an error
OptStringField(obj, key) ==
    IF key \notin DOMAIN obj THEN Ok(None)
    ELSE IF obj[key].t = "string" THEN Ok(Some(obj[key].v))
    ELSE Err("DecodeJsonToStruct", "")

OptMetaField(obj, key) ==
    IF key \notin DOMAIN obj THEN Ok(None)
    ELSE IF obj[key].t = "meta" THEN Ok(Some(obj[key].v))
    ELSE Err("DecodeJsonToStruct", "")

\* the flattened Option<HashMap<..>>: the keys no named field took; Some of
\* the map when every one of them holds a series, None when one does not
FlattenedEntry(obj) ==
    LET rest == DOMAIN obj \ NamedKeys
    IN  IF \A k \in rest : obj[k].t = "series"
        THEN Some([k \in rest |-> obj[k].v])
        ELSE None

\* serde_json::from_str(&string_output).map_err(|_| Error::DecodeJsonToStruct)
from_str(body) ==
    IF ~body.json THEN Err("DecodeJsonToStruct", "")
    ELSE LET information == OptStringField(body.obj, "Information")
             error_message == OptStringField(body.obj, "Error Message")
             note == OptStringField(body.obj, "Note")
             meta_data == OptMetaField(body.obj, "Meta Data")
         IN  IF \/ information.tag = "Err" \/ error_message.tag = "Err"
                \/ note.tag = "Err" \/ meta_data.tag = "Err"
             THEN Err("DecodeJsonToStruct", "")
             ELSE Ok([information |-> information.val,
                      error_message |-> error_message.val,
                      note |-> note.val,
                      meta_data |-> meta_data.val,
                      entry |-> FlattenedEntry(body.obj)])

(***************************************************************************)
(* ApiClient, CryptoBuilder and the call json().                           *)
(***************************************************************************)
Providers == {"AlphaVantage", "RapidAPI"}
ApiKeys == {"demo", "secret"}
CryptoFunctions == {"Daily", "Weekly", "Monthly"}
Calls == 1..NumCalls

\* URLs are sequences of pieces, cut where the claims read them: a host
\* with its "/", the path segment "query", the parameter names, the values
BASE_URL == <<"https://www.alphavantage.co/">>
RAPID_API_BASE_URL == <<"https://alpha-vantage.p.rapidapi.com/", "query">>

\* ApiClient::set_api / ApiClient::set_rapid_api
set_api(api) == [api |-> api, provider |-> "AlphaVantage"]
\* set_rapid_api storing no key
set_rapid_api_no_key(api) == [api |-> "", provider |-> "RapidAPI"]

set_rapid_api(api) == [api |-> api, provider |-> "RapidAPI"]

\* ApiClient::get_api_key
get_api_key(cl) == cl.api

\* user.rs: APIKey(String), APIKey::set_api and APIKey::get_api
APIKey_set_api(api) == <<api>>
APIKey_get_api(key) == key[1]

\* create_url with the token of Daily copied to Weekly
create_url_weekly_as_daily(b) ==
    LET function_name ==
            CASE b.function = "Daily" -> "DIGITAL_CURRENCY_DAILY"
              [] b.function = "Weekly" -> "DIGITAL_CURRENCY_DAILY"
              [] b.function = "Monthly" -> "DIGITAL_CURRENCY_MONTHLY"
    IN  <<"query", "?function=", function_name, "&symbol=", b.symbol,
          "&market=", b.market>>

\* CryptoBuilder::create_url: the pieces of the formatted string, in order
create_url(b) ==
    LET function_name ==
            CASE b.function = "Daily" -> "DIGITAL_CURRENCY_DAILY"
              [] b.function = "Weekly" -> "DIGITAL_CURRENCY_WEEKLY"
              [] b.function = "Monthly" -> "DIGITAL_CURRENCY_MONTHLY"
    IN  <<"query", "?function=", function_name, "&symbol=", b.symbol,
          "&market=", b.market>>

\* get_json sending the key in the URL for both providers
transport_request_key_in_url(cl, path) ==
    IF cl.provider = "AlphaVantage"
    THEN [method |-> "get_alpha_vantage_provider_output",
          url |-> BASE_URL \o path \o <<"&apikey=", cl.api>>,
          api_key |-> None]
    ELSE [method |-> "get_rapid_api_provider_output",
          url |-> RAPID_API_BASE_URL \o path \o <<"&apikey=", cl.api>>,
          api_key |-> Some(cl.api)]

\* the transport call get_json makes for path: which method of HttpClient,
\* with which URL and which api_key argument
transport_request(cl, path) ==
    IF cl.provider = "AlphaVantage"
    THEN [method |-> "get_alpha_vantage_provider_output",
          url |-> BASE_URL \o path \o <<"&apikey=", cl.api>>,
          api_key |-> None]
    ELSE [method |-> "get_rapid_api_provider_output",
          url |-> RAPID_API_BASE_URL \o path,
          api_key |-> Some(cl.api)]

NoRequest == [method |-> "none", url |-> <<>>, api_key |-> None]

\* impl HttpClient for reqwest::Client / surf::Client: the GET a transport
\* call sends, its URL and the headers it sets
http_get(request) ==
    IF request.method = "get_rapid_api_provider_output"
    THEN [url |-> request.url,
          headers |-> ("x-rapidapi-host" :> "alpha-vantage.p.rapidapi.com")
                      @@ ("x-rapidapi-key" :> request.api_key.val)]
    ELSE [url |-> request.url, headers |-> EmptyMap]

\* what the transport can answer: Error::GetRequestFailed or the body text
Replies == {Err("GetRequestFailed", "")} \cup { Ok(b) : b \in Bodies }

\* a builder on which json() has not been called
NewCall(function, symbol, market) ==
    [function |-> function, symbol |-> symbol, market |-> market,
     pc |-> "built", request |-> NoRequest, requests |-> 0,
     stages |-> <<>>, reply |-> Nothing, outcome |-> Nothing]

\* json() up to the .await of the transport: the URL is formatted and the
\* one request of get_json is handed to the transport
json_start(cl, call) ==
    [call EXCEPT !.pc = "awaiting",
                 !.request = transport_request(cl, create_url(call)),
                 !.requests = 1,
                 !.stages = <<"format", "fetch">>,
                 !.reply = Nothing,
                 !.outcome = Nothing]

\* json() behind the `?` on the transport's answer: from_str decodes the
\* text, `?` returns a decode error, convert() ends the call
decode_and_convert(call, text, ord) ==
    LET decoded == from_str(text)
    IN  IF decoded.tag = "Err"
        THEN [call EXCEPT !.pc = "done",
                          !.stages = @ \o <<"decode">>,
                          !.outcome = decoded]
        ELSE LET converted == convert(decoded.val, ord)
             IN  [call EXCEPT !.pc = "done",
                              !.stages = @ \o <<"decode">> \o converted.steps,
                              !.outcome = converted.outcome]

\* json() with a failed request sent once more before giving up
json_resume_retry(call, reply, ord) ==
    IF reply.tag = "Err" /\ call.requests < 2
    THEN [call EXCEPT !.requests = @ + 1, !.stages = @ \o <<"fetch">>]
    ELSE IF reply.tag = "Err"
    THEN [call EXCEPT !.pc = "done", !.outcome = reply]
    ELSE decode_and_convert(call, reply.val, ord)

\* json() from the transport's answer on: `?` returns a transport error,
\* else the text is decoded and converted
json_resume(call, reply, ord) ==
    IF reply.tag = "Err"
    THEN [call EXCEPT !.pc = "done", !.outcome = reply]
    ELSE decode_and_convert(call, reply.val, ord)

\* the iteration orders convert can meet for the helper in a reply
ReplyOrders(reply) ==
    IF reply.tag = "Ok" /\ from_str(reply.val).tag = "Ok"
    THEN HelperOrders(from_str(reply.val).val)
    ELSE {NoOrder}

(***************************************************************************)
(* Specification of the calls: one client, NumCalls builders on it.        *)
(***************************************************************************)
NoRet == [op |-> "none", arg |-> <<>>, val |-> Nothing, self |-> <<>>]
NoHelper == [information |-> None, error_message |-> None, note |-> None,
             meta_data |-> None, entry |-> None]

\* the builders api.crypto(function, symbol, market) the callers make
Builders ==
    { NewCall("Daily", "BTC", "EUR"), NewCall("Weekly", "BTC", "EUR"),
      NewCall("Monthly", "ETH", "USD") }

\* a place for a builder that no caller has made yet
NoBuilder == [NewCall("none", "", "") EXCEPT !.pc = "none"]

Init ==
    /\ client \in { set_api(k) : k \in ApiKeys } \cup { set_rapid_api(k) : k \in ApiKeys }
    /\ calls = [c \in Calls |-> NoBuilder]
    /\ helper = NoHelper
    /\ result = NotConverted
    /\ vec = <<>>
    /\ ret = NoRet

\* json() on builder c also rewriting the request of the other calls, as
\* if the formatted URL were kept in one place for the whole client
JsonStartSharedUrl(c) ==
    /\ calls[c].pc \in {"built", "done"}
    /\ calls' = [d \in Calls |->
                   IF d = c THEN json_start(client, calls[c])
                   ELSE IF calls[d].pc = "built" THEN calls[d]
                   ELSE [calls[d] EXCEPT
                           !.request = transport_request(client, create_url(calls[c]))]]
    /\ UNCHANGED <<client, helper, result, vec, ret>>

\* ApiClient::crypto: a caller makes a builder in place c, where no call
\* is running
Crypto(c) ==
    /\ calls[c].pc \in {"none", "built", "done"}
    /\ \E b \in Builders : calls' = [calls EXCEPT ![c] = b]
    /\ UNCHANGED <<client, helper, result, vec, ret>>

\* a caller invokes json() on builder c (again, once the last call ended)
JsonStart(c) ==
    /\ calls[c].pc \in {"built", "done"}
    /\ calls' = [calls EXCEPT ![c] = json_start(client, calls[c])]
    /\ UNCHANGED <<client, helper, result, vec, ret>>

\* the transport answers the request of call c and json() runs to its end
TransportReply(c) ==
    /\ calls[c].pc = "awaiting"
    /\ \E reply \in Replies :
         \E ord \in ReplyOrders(reply) :
            calls' = [calls EXCEPT ![c] =
                        json_resume([calls[c] EXCEPT !.reply = reply], reply, ord)]
    /\ UNCHANGED <<client, helper, result, vec, ret>>

Next ==
    \/ \E c \in Calls : Crypto(c)
    \/ \E c \in Calls : JsonStart(c)
    \/ \E c \in Calls : TransportReply(c)

Spec == Init /\ [][Next]_vars

(***************************************************************************)
(* Specification of convert as a function of the helper.                   *)
(***************************************************************************)
IdleClient == set_api("demo")
IdleCalls == [c \in Calls |-> NewCall("Daily", "BTC", "EUR")]

InitConvert ==
    /\ helper \in CryptoHelpers
    /\ result = NotConverted
    /\ client = IdleClient
    /\ calls = IdleCalls
    /\ vec = <<>>
    /\ ret = NoRet

\* convert(self): the helper is consumed, one outcome is produced
Convert ==
    /\ result = NotConverted
    /\ \E ord \in HelperOrders(helper) : result' = convert(helper, ord)
    /\ UNCHANGED <<client, calls, helper, vec, ret>>

NextConvert == Convert

SpecConvert == InitConvert /\ [][NextConvert]_vars

(***************************************************************************)
(* Specification of the Vec<Entry> operations on a given collection.       *)
(***************************************************************************)
VecTimes == {<<>>, <<"1">>, <<"1", "2">>, <<"2">>}
VecEntries == { [EntryDefault EXCEPT !.time = t, !.usd_open = u] :
                  t \in VecTimes, u \in {0, 1} }
Vecs == UNION { [1..n -> VecEntries] : n \in 0..MaxEntries }

InitVec ==
    /\ vec \in Vecs
    /\ ret = NoRet
    /\ client = IdleClient
    /\ calls = IdleCalls
    /\ helper = NoHelper
    /\ result = NotConverted

Find(time) ==
    /\ ret' = [op |-> "find", arg |-> time, val |-> find(vec, time), self |-> vec]
    /\ UNCHANGED <<client, calls, helper, result, vec>>

Latest ==
    /\ ret' = [op |-> "latest", arg |-> <<>>, val |-> latest(vec), self |-> vec]
    /\ UNCHANGED <<client, calls, helper, result, vec>>

LatestN(n) ==
    /\ ret' = [op |-> "latest_n", arg |-> n, val |-> latest_n(vec, n), self |-> vec]
    /\ UNCHANGED <<client, calls, helper, result, vec>>

NextVec ==
    \/ \E time \in VecTimes : Find(time)
    \/ Latest
    \/ \E n \in 0..(MaxEntries + 1) : LatestN(n)

SpecVec == InitVec /\ [][NextVec]_vars

(***************************************************************************)
(* Claims on convert, checked under SpecConvert.                           *)
(***************************************************************************)
Ran == result.outcome.tag # "Nothing"
ReachedStructural == \E i \in 1..Len(result.steps) : result.steps[i] = "structural"
\* the helper holds at least one record
HasRecords(h) ==
    /\ IsSome(h.entry)
    /\ \E k \in DOMAIN h.entry.val : DOMAIN h.entry.val[k] # {}

\* C1: when error_message is set, convert fails with the "request rejected"
\* error carrying exactly that message and stops at the sentinel check,
\* whatever note, information, meta_data and entry hold: no panic, no
\* EmptyResponse, no structural conversion.
C1_ErrorMessageRejected ==
    (Ran /\ IsSome(helper.error_message)) =>
        /\ result.outcome = Err("AlphaVantageErrorMessage", helper.error_message.val)
        /\ result.steps = <<"detect">>
        /\ ~ReachedStructural

\* error_message is set next to both other sentinels, with no meta data
C1_Witness ==
    /\ Ran
    /\ helper.error_message = Some("Invalid API call")
    /\ IsSome(helper.note) /\ IsSome(helper.information)
    /\ IsNone(helper.meta_data)
    /\ result.outcome.tag = "Err"

\* C2: when note is set and error_message is not, convert fails with the
\* "rate limited" error carrying the note's message, whether or not
\* information, meta_data or entry are present.
C2_NoteRateLimited ==
    (Ran /\ IsSome(helper.note) /\ IsNone(helper.error_message)) =>
        /\ result.outcome = Err("AlphaVantageNote", helper.note.val)
        /\ result.steps = <<"detect">>

\* note is set next to information and a full payload
C2_Witness ==
    /\ Ran
    /\ IsSome(helper.note) /\ IsNone(helper.error_message)
    /\ IsSome(helper.information)
    /\ IsSome(helper.meta_data) /\ HasRecords(helper)
    /\ result.outcome.tag = "Err"

\* C3: when information is set and error_message and note are not, convert
\* fails with the "empty / no data" error, also with meta_data and entry
\* present; information yields to error_message and to note.
C3_InformationNoData ==
    (Ran /\ IsSome(helper.information)) =>
        /\ (IsNone(helper.error_message) /\ IsNone(helper.note)) =>
              /\ result.outcome = Err("AlphaVantageInformation", helper.information.val)
              /\ result.steps = <<"detect">>
        /\ (IsSome(helper.error_message) \/ IsSome(helper.note)) =>
              /\ result.outcome.tag = "Err"
              /\ result.outcome.kind \in {"AlphaVantageErrorMessage", "AlphaVantageNote"}

\* information alone is set, next to a full payload
C3_Witness ==
    /\ Ran
    /\ IsSome(helper.information)
    /\ IsNone(helper.error_message) /\ IsNone(helper.note)
    /\ IsSome(helper.meta_data) /\ HasRecords(helper)
    /\ result.outcome.tag = "Err"

\* C4: with the three sentinels unset, a missing meta_data or a missing
\* entry (one alone is enough) makes convert fail with EmptyResponse before
\* any record is converted; with both present convert goes on to the
\* structural conversion.
C4_MissingPayloadEmptyResponse ==
    (/\ Ran
     /\ IsNone(helper.information)
     /\ IsNone(helper.error_message)
     /\ IsNone(helper.note)) =>
        /\ (IsNone(helper.meta_data) \/ IsNone(helper.entry)) =>
              /\ result.outcome = Err("EmptyResponse", "")
              /\ ~ReachedStructural
        /\ (IsSome(helper.meta_data) /\ IsSome(helper.entry)) => ReachedStructural

\* meta_data alone is missing, the records are there
C4_Witness ==
    /\ Ran
    /\ IsNone(helper.information)
    /\ IsNone(helper.error_message)
    /\ IsNone(helper.note)
    /\ IsNone(helper.meta_data) /\ HasRecords(helper)
    /\ result.outcome = Err("EmptyResponse", "")

\* the number of records of a series map
RecordCount(m) ==
    Cardinality({ kt \in (DOMAIN m) \X SeriesTimes : kt[2] \in DOMAIN m[kt[1]] })

\* C8: conversion is all-or-nothing: convert ends in one complete Crypto
\* (one Entry per record of the helper) or in one typed Error, also when a
\* record carries flattened key/value pairs that are no numeric strings; it
\* never panics.
C8_AllOrNothing ==
    Ran =>
        /\ result.outcome.tag \in {"Ok", "Err"}
        /\ result.outcome.tag = "Ok" =>
              Len(result.outcome.val.entry) = RecordCount(helper.entry.val)

(***************************************************************************)
(* Claims on the Vec<Entry> operations, checked under SpecVec.             *)
(***************************************************************************)
\* the timestamps of the records the references in idx point at
TimesAt(v, idx) == [j \in 1..Len(idx) |-> v[idx[j]].time]

\* times lists, with multiplicity, Len(times) largest timestamps of v
AreLargest(v, times) ==
    \E S \in SUBSET (1..Len(v)) :
        /\ Cardinality(S) = Len(times)
        /\ \A t \in VecTimes :
              Cardinality({ i \in S : v[i].time = t })
                  = Cardinality({ j \in 1..Len(times) : times[j] = t })
        /\ \A i \in S : \A j \in (1..Len(v)) \ S : StrLeq(v[j].time, v[i].time)

\* C5: latest_n(n) on a collection of size k returns, for every n <= k
\* (n = 0 and n = k included), exactly n records whose timestamps are in
\* non-increasing order and are the n largest of the collection; for n > k
\* it fails with DesiredNumberOfEntryNotPresent carrying k.
C5_LatestN ==
    ret.op = "latest_n" =>
        LET n == ret.arg
            k == Len(vec)
        IN  /\ n <= k =>
                 /\ ret.val.tag = "Ok"
                 /\ Len(ret.val.val) = n
                 /\ \A j \in 1..n : ret.val.val[j] \in 1..k
                 /\ \A j \in 1..(n - 1) :
                       StrLeq(TimesAt(vec, ret.val.val)[j + 1],
                              TimesAt(vec, ret.val.val)[j])
                 /\ AreLargest(vec, TimesAt(vec, ret.val.val))
            /\ n > k => ret.val = Err("DesiredNumberOfEntryNotPresent", k)

\* two of three records are asked for, two timestamps are equal
C5_Witness ==
    /\ ret.op = "latest_n"
    /\ ret.arg = 2
    /\ Len(vec) = 3
    /\ vec[1].time = vec[3].time
    /\ StrLess(vec[1].time, vec[2].time)
    /\ ret.val.tag = "Ok"

\* C6: latest() on an empty collection returns the default record; on a
\* non-empty collection it returns a copy of a record of the collection
\* whose timestamp is lexicographically maximal among all entries.
C6_Latest ==
    ret.op = "latest" =>
        /\ vec = <<>> => ret.val = EntryDefault
        /\ vec # <<>> =>
              /\ \E i \in 1..Len(vec) : vec[i] = ret.val
              /\ \A j \in 1..Len(vec) : StrLeq(vec[j].time, ret.val.time)

\* C7: find(time) returns a record of the collection whose timestamp equals
\* time, the first one in list order, and nothing exactly when no record has
\* that timestamp; the collection is the same afterwards.
C7_Find ==
    ret.op = "find" =>
        /\ vec = ret.self
        /\ IsNone(ret.val) <=> (\A i \in 1..Len(vec) : vec[i].time # ret.arg)
        /\ IsSome(ret.val) =>
              /\ ret.val.val \in 1..Len(vec)
              /\ vec[ret.val.val].time = ret.arg
              /\ \A j \in 1..(ret.val.val - 1) : vec[j].time # ret.arg

\* two records carry the timestamp looked for, behind one that does not
C7_Witness ==
    /\ ret.op = "find"
    /\ Len(vec) = 3
    /\ vec[1].time # ret.arg
    /\ vec[2].time = ret.arg /\ vec[3].time = ret.arg
    /\ vec[2] # vec[3]
    /\ ret.val = Some(2)

(***************************************************************************)
(* Claims on json(), checked under Spec.                                   *)
(***************************************************************************)
\* how often stage occurs among the stages a call ran
StageCount(stages, stage) ==
    Cardinality({ i \in 1..Len(stages) : stages[i] = stage })

\* C9: every call of json() hands exactly one request to the transport,
\* whether it ends in success, transport failure, decode failure or a
\* sentinel error; no request is repeated within a call.
C9_OneRequestPerCall ==
    \A c \in Calls :
        /\ calls[c].pc = "built" => calls[c].requests = 0
        /\ calls[c].pc \in {"awaiting", "done"} =>
              /\ calls[c].requests = 1
              /\ StageCount(calls[c].stages, "fetch") = 1

\* one call ended in a transport failure, the other in a decoded Crypto
C9_Witness ==
    /\ calls[1].pc = "done"
    /\ calls[1].outcome.tag = "Err"
    /\ calls[1].outcome.kind = "GetRequestFailed"
    /\ calls[1].requests = 1
    /\ calls[2].pc = "done"
    /\ calls[2].outcome.tag = "Ok"
    /\ calls[2].requests = 1

\* the stages of json() in their order: format the URL, fetch, decode the
\* JSON, the sentinel check with its payload test, the structural conversion
StageOrder == <<"format", "fetch", "decode", "detect", "payload", "structural">>

\* the stage whose failure an error kind reports
StageOfError(kind) ==
    CASE kind = "GetRequestFailed" -> "fetch"
      [] kind = "DecodeJsonToStruct" -> "decode"
      [] kind \in {"AlphaVantageErrorMessage", "AlphaVantageNote",
                   "AlphaVantageInformation"} -> "detect"
      [] kind = "EmptyResponse" -> "payload"

\* the stages ran in the fixed order and stopped at the first failure: all
\* but the last claim of C10, which holds of every call, a panicking one too
StagesStopAtFailure ==
    \A c \in Calls :
        calls[c].pc = "done" =>
            LET st == calls[c].stages
                out == calls[c].outcome
            IN  /\ Len(st) >= 2 /\ Len(st) <= Len(StageOrder)
                /\ st = SubSeq(StageOrder, 1, Len(st))
                /\ out.tag = "Err" => st[Len(st)] = StageOfError(out.kind)
                /\ out.tag \in {"Ok", "Panic"} => st = StageOrder

\* C10: json() runs format URL, fetch, JSON decode, sentinel check and
\* structural conversion in this order, and the first failing stage ends the
\* call with that stage's error while no later stage runs: a transport
\* failure returns GetRequestFailed with no decoding, text that is no valid
\* JSON for the helper returns DecodeJsonToStruct with no sentinel check.
C10_FirstFailureEndsCall ==
    \A c \in Calls :
        calls[c].pc = "done" =>
            LET st == calls[c].stages
                out == calls[c].outcome
            IN  /\ st = SubSeq(StageOrder, 1, Len(st))
                /\ out.tag \in {"Ok", "Err"}
                /\ out.tag = "Err" => st[Len(st)] = StageOfError(out.kind)
                /\ out.tag = "Ok" => st = StageOrder
                /\ (out.tag = "Err" /\ out.kind = "GetRequestFailed")
                      <=> st = <<"format", "fetch">>
                /\ (out.tag = "Err" /\ out.kind = "DecodeJsonToStruct")
                      <=> st = <<"format", "fetch", "decode">>

(***************************************************************************)
(* Claims on the transport and the URLs, checked under Spec.               *)
(***************************************************************************)
\* call c has handed its request to the transport
Requested(c) == calls[c].pc \in {"awaiting", "done"}

\* the last n pieces of the sequence s
Suffix(s, n) == SubSeq(s, Len(s) - n + 1, Len(s))

\* how often piece occurs in the URL
PieceCount(url, piece) == Cardinality({ i \in 1..Len(url) : url[i] = piece })

\* C11: the provider alone chooses the transport method and the key goes by
\* one channel: a set_api client calls the direct fetch with a URL ending in
\* "&apikey=<key>" and sends no header; a set_rapid_api client calls the
\* proxied fetch with the key as api_key argument, sent as x-rapidapi-key
\* next to the fixed x-rapidapi-host, and the key is nowhere in the URL.
C11_KeyChannel ==
    \A c \in Calls :
        Requested(c) =>
            LET rq == calls[c].request
            IN  /\ client.provider = "AlphaVantage" =>
                     /\ rq.method = "get_alpha_vantage_provider_output"
                     /\ IsNone(rq.api_key)
                     /\ Suffix(rq.url, 2) = <<"&apikey=", client.api>>
                     /\ PieceCount(rq.url, client.api) = 1
                     /\ DOMAIN http_get(rq).headers = {}
                /\ client.provider = "RapidAPI" =>
                     /\ rq.method = "get_rapid_api_provider_output"
                     /\ rq.api_key = Some(client.api)
                     /\ PieceCount(rq.url, client.api) = 0
                     /\ PieceCount(rq.url, "&apikey=") = 0
                     /\ http_get(rq).headers =
                           ("x-rapidapi-host" :> "alpha-vantage.p.rapidapi.com")
                           @@ ("x-rapidapi-key" :> client.api)

\* a set_rapid_api client with key "secret" has a request under way
C11_Witness ==
    /\ client = set_rapid_api("secret")
    /\ calls[1].pc = "awaiting"
    /\ calls[1].request.api_key = Some("secret")
    /\ calls[2].pc = "done"

\* C12: in proxied mode the request goes to
\* https://alpha-vantage.p.rapidapi.com/query followed by the query string
\* "?function=..", the path segment "query" being there once; in direct mode
\* the URL is https://www.alphavantage.co/query?function=..&apikey=<key>.
C12_RequestUrl ==
    \A c \in Calls :
        Requested(c) =>
            LET url == calls[c].request.url
            IN  /\ PieceCount(url, "query") = 1
                /\ url[2] = "query"
                /\ url[3] = "?function="
                /\ client.provider = "RapidAPI" =>
                      url[1] = "https://alpha-vantage.p.rapidapi.com/"
                /\ client.provider = "AlphaVantage" =>
                      /\ url[1] = "https://www.alphavantage.co/"
                      /\ Suffix(url, 2) = <<"&apikey=", client.api>>

\* the direct half of C12, which holds: one "query", then the query string
DirectRequestUrl ==
    \A c \in Calls :
        (Requested(c) /\ client.provider = "AlphaVantage") =>
            LET url == calls[c].request.url
            IN  /\ PieceCount(url, "query") = 1
                /\ SubSeq(url, 1, 3)
                      = <<"https://www.alphavantage.co/", "query", "?function=">>
                /\ Suffix(url, 2) = <<"&apikey=", client.api>>

\* the builder parameters of call c
Params(c) == <<calls[c].function, calls[c].symbol, calls[c].market>>

\* two outcomes that differ at most in the order of the records, which is
\* the iteration order of the call's own HashMaps
SameUpToOrder(o1, o2) ==
    /\ o1.tag = o2.tag
    /\ o1.tag = "Err" => (o1.kind = o2.kind /\ o1.val = o2.val)
    /\ o1.tag = "Ok" =>
          /\ o1.val.meta_data = o2.val.meta_data
          /\ Len(o1.val.entry) = Len(o2.val.entry)
          /\ \A i \in 1..Len(o1.val.entry) :
                Cardinality({ j \in 1..Len(o1.val.entry) :
                                o1.val.entry[j] = o1.val.entry[i] })
                    = Cardinality({ j \in 1..Len(o2.val.entry) :
                                      o2.val.entry[j] = o1.val.entry[i] })

\* what a call holds depends on its own parameters and its own reply only
OwnInputsDecide ==
    \A c, d \in Calls :
        /\ Requested(c) =>
              Contains(calls[c].request.url,
                       <<"&symbol=", calls[c].symbol, "&market=", calls[c].market>>)
        /\ (Requested(c) /\ Requested(d) /\ Params(c) = Params(d)) =>
              calls[c].request = calls[d].request
        /\ (calls[c].pc = "done" /\ calls[d].pc = "done"
              /\ calls[c].reply = calls[d].reply) =>
              SameUpToOrder(calls[c].outcome, calls[d].outcome)

\* a step changes one call at most and never the client
OneCallSteps ==
    /\ client' = client
    /\ \A c, d \in Calls : (calls'[c] # calls[c] /\ d # c) => calls'[d] = calls[d]

\* C13: calls on one shared client are independent under every
\* interleaving: the client keeps the api key and the provider it was built
\* with, a step of one call leaves every other call as it is, and the request
\* URL and the outcome of a call follow from its own parameters and its own
\* response (the order of the records aside).
C13_CallsIndependent == []OwnInputsDecide /\ [][OneCallSteps]_vars

\* two calls of equal builders got the same body and hold the records in
\* different orders: the interleaving reached both
C13_Witness ==
    /\ calls[1].pc = "done" /\ calls[2].pc = "done"
    /\ Params(1) = Params(2)
    /\ calls[1].reply = calls[2].reply
    /\ calls[1].outcome.tag = "Ok"
    /\ calls[1].outcome # calls[2].outcome

\* C14: the API key round-trips: a client built with set_api(k) or
\* set_rapid_api(k) reports get_api_key() = k (and APIKey::set_api(k)
\* reports get_api() = k), and no builder creation and no endpoint call
\* changes what get_api_key() reports.
C14_KeyRoundTrip ==
    /\ \E k \in ApiKeys :
          /\ client \in {set_api(k), set_rapid_api(k)}
          /\ get_api_key(client) = k
    /\ \A k \in ApiKeys : APIKey_get_api(APIKey_set_api(k)) = k
    /\ [][get_api_key(client)' = get_api_key(client)]_vars

\* the key is read after a builder was made and a call has ended
C14_Witness ==
    /\ client = set_rapid_api("secret")
    /\ get_api_key(client) = "secret"
    /\ calls[1].pc = "done"
    /\ calls[2].pc = "built"

(***************************************************************************)
(* Claim on the records convert builds, checked under SpecConvert.         *)
(***************************************************************************)
\* the (series key, timestamp) pairs of a series map: its records
RecordKeys(m) ==
    { kt \in (DOMAIN m) \X SeriesTimes : kt[2] \in DOMAIN m[kt[1]] }

\* the patterns of the market fields, in the order of the chain
MarketPatterns == <<K1a, K2a, K3a, K4a>>

\* the keys of md that hold pattern i and no pattern in front of it
RoutedKeys(md, i) ==
    { k \in DOMAIN md :
        /\ Contains(k, MarketPatterns[i])
        /\ \A j \in 1..(i - 1) : ~Contains(k, MarketPatterns[j]) }

\* v is what market field i may hold: zero when no key is routed to it,
\* else the number one of the keys routed to it spells
MarketFieldOk(md, i, v) ==
    IF RoutedKeys(md, i) = {} THEN v = 0
    ELSE \E k \in RoutedKeys(md, i) : ParseF64(md[k]) = Ok(v)

\* Entry e is the record of timestamp t with the fields of eh
IsRecordOf(e, t, eh) ==
    /\ e.time = t
    /\ e.usd_open = eh.open_usd /\ e.usd_high = eh.high_usd
    /\ e.usd_low = eh.low_usd /\ e.usd_close = eh.close_usd
    /\ e.volume = eh.volume /\ e.market_cap = eh.market_cap
    /\ MarketFieldOk(eh.market_data, 1, e.market_open)
    /\ MarketFieldOk(eh.market_data, 2, e.market_high)
    /\ MarketFieldOk(eh.market_data, 3, e.market_low)
    /\ MarketFieldOk(eh.market_data, 4, e.market_close)

\* every flattened value of every record of h is a numeric string
NumericFields(h) ==
    \A kt \in RecordKeys(h.entry.val) :
       LET md == h.entry.val[kt[1]][kt[2]].market_data
       IN  \A k \in DOMAIN md : ParseF64(md[k]).tag = "Ok"

UpstreamToken(function) ==
    CASE function = "Daily" -> "DIGITAL_CURRENCY_DAILY"
      [] function = "Weekly" -> "DIGITAL_CURRENCY_WEEKLY"
      [] function = "Monthly" -> "DIGITAL_CURRENCY_MONTHLY"

\* 'query?function=<token>&symbol=<symbol>&market=<market>' for builder c
ExpectedPath(c) ==
    <<"query", "?function=", UpstreamToken(calls[c].function),
      "&symbol=", calls[c].symbol, "&market=", calls[c].market>>

\* what get_json was given as path: the request URL without the base URL
\* in front and, in direct mode, without the "&apikey=<key>" behind
RequestPath(c) ==
    LET url == calls[c].request.url
    IN  IF client.provider = "AlphaVantage"
        THEN SubSeq(url, Len(BASE_URL) + 1, Len(url) - 2)
        ELSE SubSeq(url, Len(RAPID_API_BASE_URL) + 1, Len(url))

\* the token create_url writes for a function variant
TokenOf(function) ==
    create_url([function |-> function, symbol |-> "BTC", market |-> "EUR"])[3]

\* every builder formats the expected string, and so does every request sent
PathAsExpected ==
    \A c \in Calls :
        /\ calls[c].pc # "none" => create_url(calls[c]) = ExpectedPath(c)
        /\ Requested(c) => RequestPath(c) = ExpectedPath(c)

\* json() leaves the parameters of its builder alone, and a later json() on
\* the same builder sends the request of the one before
BuilderUnchanged ==
    \A c \in Calls :
        (calls[c].pc # "none" /\ calls'[c].pc \in {"awaiting", "done"}) =>
            /\ Params(c)' = Params(c)
            /\ create_url(calls'[c]) = create_url(calls[c])
            /\ (calls[c].pc = "done" /\ calls'[c].pc = "awaiting") =>
                  calls'[c].request = calls[c].request

\* C16: create_url maps Daily, Weekly and Monthly to DIGITAL_CURRENCY_DAILY,
\* _WEEKLY and _MONTHLY, one token per variant and no token twice, and
\* formats exactly query?function=<token>&symbol=<symbol>&market=<market>,
\* three parameters in that order; create_url and json() leave the builder
\* as it is, so calling again on one builder formats the same URL.
C16_CreateUrl ==
    /\ [](/\ \A f, g \in CryptoFunctions : TokenOf(f) = TokenOf(g) => f = g
          /\ \A f \in CryptoFunctions : TokenOf(f) = UpstreamToken(f)
          /\ PathAsExpected)
    /\ [][BuilderUnchanged]_vars

\* a Weekly builder has its request under way while a Monthly one has ended
C16_Witness ==
    /\ calls[1].pc = "awaiting"
    /\ calls[1].function = "Weekly"
    /\ RequestPath(1) = <<"query", "?function=", "DIGITAL_CURRENCY_WEEKLY",
                          "&symbol=", "BTC", "&market=", "EUR">>
    /\ calls[2].pc = "done"
    /\ calls[2].function = "Monthly"

(***************************************************************************)
(* Claim relating latest, latest_n and find, checked under SpecVec.        *)
(***************************************************************************)
\* every record latest_n returned is a record of the collection and is the
\* one find gives for its timestamp
ReturnedAreFound(v, idx) ==
    \A j \in 1..Len(idx) :
        /\ idx[j] \in 1..Len(v)
        /\ find(v, v[idx[j]].time) = Some(idx[j])

\* the records latest_n returned are pairwise different elements
PairwiseDifferent(idx) ==
    \A i, j \in 1..Len(idx) : i # j => idx[i] # idx[j]

\* the first record of latest_n carries the timestamp of latest()
HeadIsLatest(v, idx) ==
    idx # <<>> => v[idx[1]].time = latest(v).time

\* C17: latest, latest_n and find agree on every collection, duplicate
\* timestamps included: each record of latest_n(n) is an element of the
\* collection and equals find of its own timestamp, the n records are
\* pairwise different elements, and the first one has the timestamp of
\* latest().
C17_OperationsAgree ==
    (ret.op = "latest_n" /\ ret.val.tag = "Ok") =>
        /\ Len(ret.val.val) = ret.arg
        /\ ReturnedAreFound(vec, ret.val.val)
        /\ PairwiseDifferent(ret.val.val)
        /\ HeadIsLatest(vec, ret.val.val)

\* what holds of the code: all of it but the pairwise difference, and that
\* too on a collection whose timestamps are pairwise different
AgreeUpToDuplicates ==
    (ret.op = "latest_n" /\ ret.val.tag = "Ok") =>
        /\ Len(ret.val.val) = ret.arg
        /\ ReturnedAreFound(vec, ret.val.val)
        /\ HeadIsLatest(vec, ret.val.val)
        /\ (\A i, j \in 1..Len(vec) : i # j => vec[i].time # vec[j].time)
              => PairwiseDifferent(ret.val.val)

====
